---- MODULE Spec2Model ----
(***************************************************************************)
(* Model of python/examples/mabdy-token-deployment/deploy_token.py:        *)
(* load_env_file, require_env, get_optional_env and main.                  *)
(*                                                                         *)
(* A Python str is a sequence of one-character strings, so that strip,     *)
(* startswith, partition and splitlines are computed character by          *)
(* character.  os.environ is a function whose DOMAIN is the set of the     *)
(* variables that are set.  Python's None is the value None below, which   *)
(* is no sequence of characters.                                           *)
(***************************************************************************)
EXTENDS Naturals, Sequences, FiniteSets, TLC

VARIABLES
    environ0,         \* os.environ when the process starts (never written)
    file,             \* the overlay ENV_FILE: [exists, text]
    environ,          \* os.environ
    pc,               \* position of main
    reads,            \* the names os.getenv was called with, in order
    network_id,       \* main's local network_id (None until line 44 binds it)
    config,           \* <<>> until line 53 binds config, then <<record>>
    args,             \* <<>> until line 66 binds args, then <<mapping>>
    wallet_provider,  \* <<>> until line 70 binds it, then <<handle>>
    provider,         \* <<>> until line 71 binds it, then <<handle>>
    result,           \* <<>> until line 72 binds it, then <<value>>
    stdout,           \* the values print wrote, in order
    calls,            \* the external calls made, in order: [op, input]
    error             \* the exception that ended main, NoError while none

vars == <<environ0, file, environ, pc, reads, network_id, config, args,
          wallet_provider, provider, result, stdout, calls, error>>

----------------------------------------------------------------------------
(* Bounds of the checked instances.                                        *)

\* lines of an overlay file in SpecLoad
MaxLines == 2
\* lines of an overlay file in Spec
MaxOverlayLines == 1

----------------------------------------------------------------------------
(* Strings of the program.                                                 *)

None == <<"None">>

NETWORK_ID == <<"N","E","T","W","O","R","K","_","I","D">>
ADDRESS == <<"A","D","D","R","E","S","S">>
IDEMPOTENCY_KEY == <<"I","D","E","M","P","O","T","E","N","C","Y","_","K","E","Y">>
CDP_API_KEY_ID == <<"C","D","P","_","A","P","I","_","K","E","Y","_","I","D">>
CDP_API_KEY_SECRET ==
    <<"C","D","P","_","A","P","I","_","K","E","Y","_","S","E","C","R","E","T">>
CDP_WALLET_SECRET ==
    <<"C","D","P","_","W","A","L","L","E","T","_","S","E","C","R","E","T">>
TOKEN_NAME == <<"T","O","K","E","N","_","N","A","M","E">>
TOKEN_SYMBOL == <<"T","O","K","E","N","_","S","Y","M","B","O","L">>
TOKEN_URI == <<"T","O","K","E","N","_","U","R","I">>

BASE_MAINNET == <<"b","a","s","e","-","m","a","i","n","n","e","t">>
BASE_SEPOLIA == <<"b","a","s","e","-","s","e","p","o","l","i","a">>
SUPPORTED_NETWORKS == {BASE_MAINNET, BASE_SEPOLIA}
DEFAULT_TOKEN_NAME == <<"M","a","b","d","y">>
DEFAULT_TOKEN_SYMBOL == <<"M","A","B","D","Y">>

----------------------------------------------------------------------------
(* str methods.                                                            *)

\* the characters str.strip() removes, among those of the modelled alphabet
Whitespace == {" ", "\t", "\n", "\r"}
\* the line boundaries of str.splitlines(), among those of the alphabet
LineBreaks == {"\n", "\r"}

RECURSIVE lstrip(_)
lstrip(s) == IF s # <<>> /\ Head(s) \in Whitespace THEN lstrip(Tail(s)) ELSE s

RECURSIVE rstrip(_)
rstrip(s) ==
    IF s # <<>> /\ s[Len(s)] \in Whitespace
    THEN rstrip(SubSeq(s, 1, Len(s) - 1))
    ELSE s

strip(s) == rstrip(lstrip(s))

startswith(s, prefix) ==
    Len(s) >= Len(prefix) /\ SubSeq(s, 1, Len(prefix)) = prefix

\* index of the first occurrence of character c in s, 0 when there is none
find(s, c) ==
    IF \E i \in 1..Len(s) : s[i] = c
    THEN CHOOSE i \in 1..Len(s) : s[i] = c /\ \A j \in 1..(i - 1) : s[j] # c
    ELSE 0

\* s.partition(sep) for a one-character sep: <<before, sep, after>>, and
\* <<s, "", "">> when sep does not occur
partition(s, sep) ==
    LET i == find(s, sep)
    IN  IF i = 0
        THEN <<s, <<>>, <<>>>>
        ELSE <<SubSeq(s, 1, i - 1), <<sep>>, SubSeq(s, i + 1, Len(s))>>

\* the lines of `text` after the line `cur` that is being read
RECURSIVE splitfrom(_, _)
splitfrom(text, cur) ==
    IF text = <<>>
    THEN IF cur = <<>> THEN <<>> ELSE <<cur>>
    ELSE IF Head(text) = "\r" /\ Len(text) >= 2 /\ text[2] = "\n"
    THEN <<cur>> \o splitfrom(SubSeq(text, 3, Len(text)), <<>>)
    ELSE IF Head(text) \in LineBreaks
    THEN <<cur>> \o splitfrom(Tail(text), <<>>)
    ELSE splitfrom(Tail(text), Append(cur, Head(text)))

splitlines(text) == splitfrom(text, <<>>)

\* Python truthiness of a str-or-None value
Truthy(value) == value # None /\ value # <<>>

----------------------------------------------------------------------------
(* os.environ and the helpers of the script.                               *)

\* variant: a variable set to the empty string counts as not set
setdefault_ReplacesEmpty(env, key, value) ==
    IF key \in DOMAIN env /\ env[key] # <<>> THEN env ELSE (key :> value) @@ env

setdefault(env, key, value) ==
    IF key \in DOMAIN env THEN env ELSE env @@ (key :> value)

\* variant: os.getenv(key) or default
getenv_OrDefault(env, key, default) ==
    IF key \in DOMAIN env /\ env[key] # <<>> THEN env[key] ELSE default

\* os.getenv(key, default); os.getenv(key) is getenv(env, key, None)
getenv(env, key, default) ==
    IF key \in DOMAIN env THEN env[key] ELSE default

\* one iteration of the loop of load_env_file
ProcessLine(env, raw) ==
    LET line == strip(raw)
    IN  IF line = <<>> \/ startswith(line, <<"#">>)
        THEN env
        ELSE LET p == partition(line, "=")
                 key == p[1]
                 value == p[3]
             IN  IF key = <<>> THEN env ELSE setdefault(env, key, value)

RECURSIVE LoadLines(_, _)
LoadLines(env, lines) ==
    IF lines = <<>>
    THEN env
    ELSE LoadLines(ProcessLine(env, Head(lines)), Tail(lines))

\* os.environ after load_env_file(path), path being the file f
load_env_file(env, f) ==
    IF ~f.exists THEN env ELSE LoadLines(env, splitlines(f.text))

NoError == [exc |-> "", text |-> "", key |-> None]

MissingVariable(key) ==
    [exc |-> "RuntimeError",
     text |-> "Missing required environment variable: ",
     key |-> key]

NetworkError ==
    [exc |-> "RuntimeError",
     text |-> "NETWORK_ID must be base-mainnet or base-sepolia for WOW token deployments.",
     key |-> None]

\* an exception raised by an external collaborator, propagated as it is
CollaboratorError(op) == [exc |-> "CollaboratorError", text |-> op, key |-> None]

\* variant: only an unset variable is missing (value is None)
require_env_AllowsEmpty(env, key) ==
    LET value == getenv(env, key, None)
    IN  IF value = None
        THEN [raised |-> TRUE, value |-> None, error |-> MissingVariable(key)]
        ELSE [raised |-> FALSE, value |-> value, error |-> NoError]

\* require_env(key): the value returned, or the exception raised
require_env(env, key) ==
    LET value == getenv(env, key, None)
    IN  IF ~Truthy(value)
        THEN [raised |-> TRUE, value |-> None, error |-> MissingVariable(key)]
        ELSE [raised |-> FALSE, value |-> value, error |-> NoError]

get_optional_env(env, key) ==
    LET value == getenv(env, key, None)
    IN  IF Truthy(value) THEN value ELSE None

\* variant: the idempotency key is looked up whatever the address
IdempotencyLookup_Always(env, wallet_address) ==
    [read |-> <<IDEMPOTENCY_KEY>>,
     value |-> get_optional_env(env, IDEMPOTENCY_KEY)]

\* line 51: the idempotency key is looked up only without a wallet address
IdempotencyLookup(env, wallet_address) ==
    IF ~Truthy(wallet_address)
    THEN [read |-> <<IDEMPOTENCY_KEY>>,
          value |-> get_optional_env(env, IDEMPOTENCY_KEY)]
    ELSE [read |-> <<>>, value |-> None]

\* variant: "token_uri" is always a key of the mapping
TokenArgs_AlwaysUri(token_name, token_symbol, token_uri) ==
    ("name" :> token_name) @@ ("symbol" :> token_symbol)
        @@ ("token_uri" :> token_uri)

\* lines 66-68: the mapping passed to create_token
TokenArgs(token_name, token_symbol, token_uri) ==
    LET base == ("name" :> token_name) @@ ("symbol" :> token_symbol)
    IN  IF Truthy(token_uri) THEN base @@ ("token_uri" :> token_uri) ELSE base

----------------------------------------------------------------------------
(* Inputs: the environments and the overlay files of the checked runs.     *)

\* every environment that sets some of `keys`, key k to a value of vals[k]
RECURSIVE Environments(_, _)
Environments(keys, vals) ==
    IF keys = {}
    THEN {[k \in {} |-> <<>>]}
    ELSE LET k == CHOOSE x \in keys : TRUE
             rest == Environments(keys \ {k}, vals)
         IN  rest \cup {e @@ (k :> v) : e \in rest, v \in vals[k]}

RECURSIVE Join(_)
Join(lines) ==
    IF lines = <<>> THEN <<>>
    ELSE IF Len(lines) = 1 THEN lines[1]
    ELSE lines[1] \o <<"\n">> \o Join(Tail(lines))

SeqsUpTo(S, n) == UNION {[1..m -> S] : m \in 0..n}

\* the files whose text is at most n lines of `pool` joined by "\n", and
\* the path that does not exist
Files(pool, n) ==
    {[exists |-> FALSE, text |-> <<>>]}
        \cup {[exists |-> TRUE, text |-> Join(ls)] : ls \in SeqsUpTo(pool, n)}

MainKeys ==
    {NETWORK_ID, ADDRESS, IDEMPOTENCY_KEY, CDP_API_KEY_ID, CDP_API_KEY_SECRET,
     CDP_WALLET_SECRET, TOKEN_NAME, TOKEN_SYMBOL, TOKEN_URI}

MainValues ==
    (NETWORK_ID :> {<<>>, BASE_MAINNET, BASE_SEPOLIA, <<"p","o","l","y","g","o","n">>})
    @@ (ADDRESS :> {<<>>, <<"0","x","A">>})
    @@ (IDEMPOTENCY_KEY :> {<<>>, <<"a","b","c","1","2","3">>})
    @@ (CDP_API_KEY_ID :> {<<>>, <<"i","d">>})
    @@ (CDP_API_KEY_SECRET :> {<<>>, <<"s","k">>})
    @@ (CDP_WALLET_SECRET :> {<<>>, <<"w","s">>})
    @@ (TOKEN_NAME :> {<<>>, <<"T","o","k">>})
    @@ (TOKEN_SYMBOL :> {<<>>, <<"T","O","K">>})
    @@ (TOKEN_URI :> {<<>>, <<"u">>})

MainEnvironments == Environments(MainKeys, MainValues)

\* overlay lines of Spec: a credential, an optional variable, and a name
\* without "="
MainLines ==
    {CDP_API_KEY_ID \o <<"=","f","i">>,
     TOKEN_URI \o <<"=","f","u">>,
     TOKEN_NAME}

KeyA == <<"A">>
KeyB == <<"B">>

LoadValues == (KeyA :> {<<>>, <<"0">>}) @@ (KeyB :> {<<>>, <<"0">>})

\* overlay lines of SpecLoad
LoadLinePool ==
    {<<>>,
     <<" ","\t">>,
     <<"#","A","=","1">>,
     <<" ","#","B","=","2">>,
     <<"A","=","1">>,
     <<"A","=","2">>,
     <<"A">>,
     <<"=","1">>,
     <<"A","=">>,
     <<" ","B","=","2","\t">>,
     <<"A"," ","=","1">>,
     <<"A","=","1","=","2">>,
     <<"B","="," ","#","2">>,
     <<"B","=","3","\r">>}

----------------------------------------------------------------------------
(* The run of main.                                                        *)

Start(env, f) ==
    /\ environ0 = env
    /\ file = f
    /\ environ = env
    /\ pc = "start"
    /\ reads = <<>>
    /\ network_id = None
    /\ config = <<>>
    /\ args = <<>>
    /\ wallet_provider = <<>>
    /\ provider = <<>>
    /\ result = <<>>
    /\ stdout = <<>>
    /\ calls = <<>>
    /\ error = NoError

Init ==
    \E env \in MainEnvironments, f \in Files(MainLines, MaxOverlayLines) :
        Start(env, f)

InitLoad ==
    \E env \in Environments({KeyA, KeyB}, LoadValues),
       f \in Files(LoadLinePool, MaxLines) :
        Start(env, f)

\* line 42
LoadEnvFile ==
    /\ pc = "start"
    /\ environ' = load_env_file(environ, file)
    /\ pc' = "network"
    /\ UNCHANGED <<environ0, file, reads, network_id, config, args,
                   wallet_provider, provider, result, stdout, calls, error>>

\* variant: the network identifier is not validated
ResolveNetwork_Unchecked ==
    /\ pc = "network"
    /\ reads' = Append(reads, NETWORK_ID)
    /\ network_id' = getenv(environ, NETWORK_ID, BASE_SEPOLIA)
    /\ pc' = "config"
    /\ UNCHANGED <<environ0, file, environ, config, args, wallet_provider,
                   provider, result, stdout, calls, error>>

\* variant: the default is stored with os.environ.setdefault
ResolveNetwork_ExportsDefault ==
    /\ pc = "network"
    /\ reads' = Append(reads, NETWORK_ID)
    /\ environ' = setdefault(environ, NETWORK_ID, BASE_SEPOLIA)
    /\ network_id' = getenv(environ', NETWORK_ID, BASE_SEPOLIA)
    /\ IF network_id' \notin SUPPORTED_NETWORKS
       THEN /\ error' = NetworkError
            /\ pc' = "failed"
       ELSE /\ pc' = "config"
            /\ UNCHANGED error
    /\ UNCHANGED <<environ0, file, config, args, wallet_provider,
                   provider, result, stdout, calls>>

\* lines 44-48: line 44 binds network_id before line 45 checks it, so a
\* rejected value stays bound when line 46 raises
ResolveNetwork ==
    /\ pc = "network"
    /\ reads' = Append(reads, NETWORK_ID)
    /\ network_id' = getenv(environ, NETWORK_ID, BASE_SEPOLIA)
    /\ IF network_id' \notin SUPPORTED_NETWORKS
       THEN /\ error' = NetworkError
            /\ pc' = "failed"
       ELSE /\ pc' = "config"
            /\ UNCHANGED error
    /\ UNCHANGED <<environ0, file, environ, config, args, wallet_provider,
                   provider, result, stdout, calls>>

\* lines 50-60
BuildConfig ==
    /\ pc = "config"
    /\ LET wallet_address == get_optional_env(environ, ADDRESS)
           idem == IdempotencyLookup(environ, wallet_address)
           id == require_env(environ, CDP_API_KEY_ID)
           secret == require_env(environ, CDP_API_KEY_SECRET)
           wallet == require_env(environ, CDP_WALLET_SECRET)
           before == reads \o <<ADDRESS>> \o idem.read
       IN  IF id.raised
           THEN /\ reads' = before \o <<CDP_API_KEY_ID>>
                /\ error' = id.error
                /\ pc' = "failed"
                /\ UNCHANGED config
           ELSE IF secret.raised
           THEN /\ reads' = before \o <<CDP_API_KEY_ID, CDP_API_KEY_SECRET>>
                /\ error' = secret.error
                /\ pc' = "failed"
                /\ UNCHANGED config
           ELSE IF wallet.raised
           THEN /\ reads' = before \o <<CDP_API_KEY_ID, CDP_API_KEY_SECRET,
                                        CDP_WALLET_SECRET>>
                /\ error' = wallet.error
                /\ pc' = "failed"
                /\ UNCHANGED config
           ELSE /\ reads' = before \o <<CDP_API_KEY_ID, CDP_API_KEY_SECRET,
                                        CDP_WALLET_SECRET>>
                /\ config' = <<[api_key_id |-> id.value,
                                api_key_secret |-> secret.value,
                                wallet_secret |-> wallet.value,
                                network_id |-> network_id,
                                address |-> wallet_address,
                                idempotency_key |-> idem.value]>>
                /\ pc' = "token"
                /\ UNCHANGED error
    /\ UNCHANGED <<environ0, file, environ, network_id, args, wallet_provider,
                   provider, result, stdout, calls>>

\* lines 62-68
BuildArgs ==
    /\ pc = "token"
    /\ reads' = reads \o <<TOKEN_NAME, TOKEN_SYMBOL, TOKEN_URI>>
    /\ LET token_name == getenv(environ, TOKEN_NAME, DEFAULT_TOKEN_NAME)
           token_symbol == getenv(environ, TOKEN_SYMBOL, DEFAULT_TOKEN_SYMBOL)
           token_uri == get_optional_env(environ, TOKEN_URI)
       IN  args' = <<TokenArgs(token_name, token_symbol, token_uri)>>
    /\ pc' = "wallet"
    /\ UNCHANGED <<environ0, file, environ, network_id, config,
                   wallet_provider, provider, result, stdout, calls, error>>

\* the values create_token may return
Results == {"tx1", "tx2"}

\* line 70: the constructor returns a handle or raises
ConstructWalletProvider ==
    /\ pc = "wallet"
    /\ calls' = Append(calls, [op |-> "CdpEvmWalletProvider", input |-> config[1]])
    /\ \E ok \in BOOLEAN :
        IF ok
        THEN /\ wallet_provider' = <<[config |-> config[1]]>>
             /\ pc' = "provider"
             /\ UNCHANGED error
        ELSE /\ error' = CollaboratorError("CdpEvmWalletProvider")
             /\ pc' = "failed"
             /\ UNCHANGED wallet_provider
    /\ UNCHANGED <<environ0, file, environ, reads, network_id, config, args,
                   provider, result, stdout>>

\* line 71
ObtainActionProvider ==
    /\ pc = "provider"
    /\ calls' = Append(calls, [op |-> "wow_action_provider", input |-> <<>>])
    /\ \E ok \in BOOLEAN :
        IF ok
        THEN /\ provider' = <<"WowActionProvider">>
             /\ pc' = "create"
             /\ UNCHANGED error
        ELSE /\ error' = CollaboratorError("wow_action_provider")
             /\ pc' = "failed"
             /\ UNCHANGED provider
    /\ UNCHANGED <<environ0, file, environ, reads, network_id, config, args,
                   wallet_provider, result, stdout>>

\* variant: a failed create_token is tried again
CreateToken_Retry ==
    /\ pc = "create"
    /\ calls' = Append(calls, [op |-> "create_token",
                               input |-> <<wallet_provider[1], args[1]>>])
    /\ \/ \E r \in Results :
            /\ result' = <<r>>
            /\ pc' = "print"
       \/ /\ pc' = "create"
          /\ UNCHANGED result
    /\ UNCHANGED <<environ0, file, environ, reads, network_id, config, args,
                   wallet_provider, provider, stdout, error>>

\* line 72
CreateToken ==
    /\ pc = "create"
    /\ calls' = Append(calls, [op |-> "create_token",
                               input |-> <<wallet_provider[1], args[1]>>])
    /\ \/ \E r \in Results :
            /\ result' = <<r>>
            /\ pc' = "print"
            /\ UNCHANGED error
       \/ /\ error' = CollaboratorError("create_token")
          /\ pc' = "failed"
          /\ UNCHANGED result
    /\ UNCHANGED <<environ0, file, environ, reads, network_id, config, args,
                   wallet_provider, provider, stdout>>

\* line 73
PrintResult ==
    /\ pc = "print"
    /\ calls' = Append(calls, [op |-> "print", input |-> result[1]])
    /\ stdout' = Append(stdout, result[1])
    /\ pc' = "done"
    /\ UNCHANGED <<environ0, file, environ, reads, network_id, config, args,
                   wallet_provider, provider, result, error>>

Next ==
    \/ LoadEnvFile
    \/ ResolveNetwork
    \/ BuildConfig
    \/ BuildArgs
    \/ ConstructWalletProvider
    \/ ObtainActionProvider
    \/ CreateToken
    \/ PrintResult

\* the run of main
Spec == Init /\ [][Next]_vars

NextLoad == LoadEnvFile

\* load_env_file alone, on a wider set of overlay files
SpecLoad == InitLoad /\ [][NextLoad]_vars

----------------------------------------------------------------------------
(* The overlay format as the specification states it: one KEY=VALUE pair   *)
(* per line; blank lines, '#' lines, lines without "=" and lines with an   *)
(* empty key are skipped.                                                  *)

FileLines == IF file.exists THEN splitlines(file.text) ELSE <<>>

IsBlank(raw) == \A i \in 1..Len(raw) : raw[i] \in {" ", "\t", "\n", "\r"}

FirstNonBlank(raw) ==
    raw[CHOOSE i \in 1..Len(raw) :
            /\ raw[i] \notin {" ", "\t", "\n", "\r"}
            /\ \A j \in 1..(i - 1) : raw[j] \in {" ", "\t", "\n", "\r"}]

IsComment(raw) == ~IsBlank(raw) /\ FirstNonBlank(raw) = "#"

HasNoEquals(raw) == \A i \in 1..Len(raw) : raw[i] # "="

HasEmptyKey(raw) == ~IsBlank(raw) /\ FirstNonBlank(raw) = "="

IsSkipped(raw) ==
    IsBlank(raw) \/ IsComment(raw) \/ HasNoEquals(raw) \/ HasEmptyKey(raw)

\* of a line that is not skipped: the text before and after its first "="
PairKey(raw) ==
    LET line == strip(raw)
        i == CHOOSE n \in 1..Len(line) :
                line[n] = "=" /\ \A j \in 1..(n - 1) : line[j] # "="
    IN  SubSeq(line, 1, i - 1)

PairValue(raw) ==
    LET line == strip(raw)
        i == CHOOSE n \in 1..Len(line) :
                line[n] = "=" /\ \A j \in 1..(n - 1) : line[j] # "="
    IN  SubSeq(line, i + 1, Len(line))

Defines(raw, key) == ~IsSkipped(raw) /\ PairKey(raw) = key

IsSet(key) == key \in DOMAIN environ

IsNonEmpty(key) == key \in DOMAIN environ /\ environ[key] # <<>>

\* lines 44-48 have run and did not raise
NetworkAccepted == pc \notin {"start", "network"} /\ error # NetworkError

AllowList ==
    {<<"b","a","s","e","-","m","a","i","n","n","e","t">>,
     <<"b","a","s","e","-","s","e","p","o","l","i","a">>}

Credentials == {CDP_API_KEY_ID, CDP_API_KEY_SECRET, CDP_WALLET_SECRET}

CredentialOrder == <<CDP_API_KEY_ID, CDP_API_KEY_SECRET, CDP_WALLET_SECRET>>

\* the mappings passed to create_token so far, and the one main has built
TokenArguments ==
    {calls[i].input[2] : i \in {n \in 1..Len(calls) : calls[n].op = "create_token"}}
        \cup {args[i] : i \in 1..Len(args)}

----------------------------------------------------------------------------
(* Claims.                                                                 *)

\* C1: after load_env_file every variable that was set before it has the
\* value it had, and a variable that was not set and that a KEY=VALUE line
\* of the file names has the value of the first such line.
C1_FirstWriterWins ==
    pc # "start" =>
        /\ \A k \in DOMAIN environ0 :
               k \in DOMAIN environ /\ environ[k] = environ0[k]
        /\ \A i \in 1..Len(FileLines) :
               LET raw == FileLines[i]
               IN  (/\ ~IsSkipped(raw)
                    /\ PairKey(raw) \notin DOMAIN environ0
                    /\ \A j \in 1..(i - 1) : ~Defines(FileLines[j], PairKey(raw)))
                   => /\ PairKey(raw) \in DOMAIN environ
                      /\ environ[PairKey(raw)] = PairValue(raw)

\* The part of C1 about variables that were set: it holds of every file.
PresetVariablesKept ==
    \A k \in DOMAIN environ0 : k \in DOMAIN environ /\ environ[k] = environ0[k]

\* C1 holds of every file none of whose lines is a name without "=".
FirstWriterWinsOfPairs ==
    (\A i \in 1..Len(FileLines) :
        IsBlank(FileLines[i]) \/ IsComment(FileLines[i]) \/ ~HasNoEquals(FileLines[i]))
    => C1_FirstWriterWins

\* C2: a file that does not exist, or all of whose lines are blank, comments,
\* without "=" or with an empty key, leaves the environment as it was and
\* raises nothing.
C2_SkippedLinesChangeNothing ==
    (pc # "start" /\ \A i \in 1..Len(FileLines) : IsSkipped(FileLines[i]))
        => environ = environ0 /\ error = NoError

\* C2 without the lines that lack "=": blank lines, comments, lines with an
\* empty key and a missing file change nothing.
BlankCommentEmptyKeyChangeNothing ==
    (/\ pc # "start"
     /\ \A i \in 1..Len(FileLines) :
            IsBlank(FileLines[i]) \/ IsComment(FileLines[i]) \/ HasEmptyKey(FileLines[i]))
        => environ = environ0 /\ error = NoError

\* C3: once the network is resolved, NETWORK_ID unset gives "base-sepolia",
\* NETWORK_ID in the allow-list gives its value, and any other value ends main
\* with the network error, no credential read, no record built and no
\* collaborator called; every record built carries an allowed network.
C3_NetworkResolution ==
    /\ pc \notin {"start", "network"} =>
        /\ ~IsSet(NETWORK_ID) =>
               /\ network_id = <<"b","a","s","e","-","s","e","p","o","l","i","a">>
               /\ error # NetworkError
        /\ (IsSet(NETWORK_ID) /\ environ[NETWORK_ID] \in AllowList) =>
               /\ network_id = environ[NETWORK_ID]
               /\ error # NetworkError
        /\ (IsSet(NETWORK_ID) /\ environ[NETWORK_ID] \notin AllowList) =>
               /\ pc = "failed"
               /\ error = NetworkError
               /\ network_id = environ[NETWORK_ID]
               /\ \A i \in 1..Len(reads) : reads[i] \notin Credentials
               /\ config = <<>>
               /\ wallet_provider = <<>>
               /\ calls = <<>>
    /\ \A i \in 1..Len(config) : config[i].network_id \in AllowList

\* C3 witness: NETWORK_ID=polygon ended main with the network error.
C3_Witness ==
    /\ pc = "failed"
    /\ error = NetworkError
    /\ IsSet(NETWORK_ID)
    /\ environ[NETWORK_ID] = <<"p","o","l","y","g","o","n">>

\* C4: in every record built, a non-empty ADDRESS is the address and the
\* idempotency key is absent; without a non-empty ADDRESS the address is absent
\* and the idempotency key is the non-empty IDEMPOTENCY_KEY, or absent.
C4_AddressExcludesIdempotencyKey ==
    \A i \in 1..Len(config) :
        /\ IsNonEmpty(ADDRESS) =>
               /\ config[i].address = environ[ADDRESS]
               /\ config[i].idempotency_key = None
        /\ ~IsNonEmpty(ADDRESS) =>
               /\ config[i].address = None
               /\ IsNonEmpty(IDEMPOTENCY_KEY) =>
                      config[i].idempotency_key = environ[IDEMPOTENCY_KEY]
               /\ ~IsNonEmpty(IDEMPOTENCY_KEY) =>
                      config[i].idempotency_key = None
        /\ config[i].address = None \/ config[i].idempotency_key = None

\* C4 witness: a record built with ADDRESS and IDEMPOTENCY_KEY both non-empty.
C4_Witness ==
    /\ config # <<>>
    /\ IsNonEmpty(ADDRESS)
    /\ IsNonEmpty(IDEMPOTENCY_KEY)
    /\ environ[IDEMPOTENCY_KEY] = <<"a","b","c","1","2","3">>

\* C5: after the network is resolved and lines 50-60 have run, a missing or
\* empty credential has ended main with the error that names the first such
\* credential in the order ID, SECRET, WALLET_SECRET, no record built and no
\* collaborator called; otherwise the record holds the three non-empty values.
C5_RequiredCredentials ==
    (NetworkAccepted /\ pc # "config") =>
        IF \E i \in 1..3 : ~IsNonEmpty(CredentialOrder[i])
        THEN LET first == CHOOSE i \in 1..3 :
                              /\ ~IsNonEmpty(CredentialOrder[i])
                              /\ \A j \in 1..(i - 1) : IsNonEmpty(CredentialOrder[j])
             IN  /\ pc = "failed"
                 /\ error.exc = "RuntimeError"
                 /\ error.text = "Missing required environment variable: "
                 /\ error.key = CredentialOrder[first]
                 /\ config = <<>>
                 /\ wallet_provider = <<>>
                 /\ calls = <<>>
        ELSE /\ Len(config) = 1
             /\ config[1].api_key_id = environ[CDP_API_KEY_ID]
             /\ config[1].api_key_secret = environ[CDP_API_KEY_SECRET]
             /\ config[1].wallet_secret = environ[CDP_WALLET_SECRET]

\* C5 witness: only CDP_WALLET_SECRET is missing and the error names it.
C5_Witness ==
    /\ pc = "failed"
    /\ error.key = CDP_WALLET_SECRET
    /\ IsNonEmpty(CDP_API_KEY_ID)
    /\ IsNonEmpty(CDP_API_KEY_SECRET)
    /\ IsSet(CDP_WALLET_SECRET)

\* C6: a Token Arguments mapping has the key "token_uri" exactly when
\* TOKEN_URI is set and non-empty, and then with the value of TOKEN_URI.
C6_TokenUriOnlyWhenNonEmpty ==
    \A a \in TokenArguments :
        /\ "token_uri" \in DOMAIN a <=> IsNonEmpty(TOKEN_URI)
        /\ "token_uri" \in DOMAIN a => a["token_uri"] = environ[TOKEN_URI]

\* C6 witness: create_token was called with TOKEN_URI set to the empty
\* string and a mapping without "token_uri".
C6_Witness ==
    /\ IsSet(TOKEN_URI)
    /\ environ[TOKEN_URI] = <<>>
    /\ \E i \in 1..Len(calls) :
           /\ calls[i].op = "create_token"
           /\ DOMAIN calls[i].input[2] = {"name", "symbol"}

\* C7: the external steps happen at most once each, in the order wallet
\* provider, action provider, create_token, print; a failure is the last step
\* of the run and nothing is printed; at the end of a run the output is the
\* result of create_token, once, exactly when create_token returned.
C7_ExternalStepsOnceInOrder ==
    /\ Len(calls) <= 4
    /\ \A i \in 1..Len(calls) :
           calls[i].op = <<"CdpEvmWalletProvider", "wow_action_provider",
                           "create_token", "print">>[i]
    /\ Len(stdout) <= 1
    /\ stdout # <<>> => stdout = result
    /\ pc = "failed" =>
           /\ stdout = <<>>
           /\ error # NoError
           /\ error.exc = "RuntimeError" => calls = <<>>
           /\ error.exc = "CollaboratorError" =>
                  /\ calls # <<>>
                  /\ calls[Len(calls)].op = error.text
                  /\ result = <<>>
    /\ pc = "done" =>
           /\ Len(calls) = 4
           /\ Len(result) = 1
           /\ stdout = result
           /\ calls[4].input = result[1]
           /\ error = NoError
    /\ pc \in {"done", "failed"} => (Len(stdout) = 1 <=> result # <<>>)

\* C7 witness: a run that printed the result of create_token.
C7_Witness == pc = "done" /\ stdout = <<"tx2">>

\* C8: no step of main after load_env_file changes os.environ.
C8_EnvironmentReadOnlyAfterLoad ==
    [][pc # "start" => environ' = environ]_vars

\* C8 witness: a run that went through every step after the overlay wrote
\* a variable.
C8_Witness == pc = "done" /\ environ # environ0

\* C9: a variable exported as the empty string keeps the empty string whatever
\* the file gives; if it is a credential no record is built, and main fails
\* with the error naming it once the network is resolved and the credentials
\* before it are present; if it is ADDRESS, IDEMPOTENCY_KEY or TOKEN_URI it
\* resolves to absent.
C9_EmptyStringIsSet ==
    pc # "start" =>
        \A k \in DOMAIN environ0 :
            environ0[k] = <<>> =>
                /\ environ[k] = <<>>
                /\ k \in Credentials =>
                       /\ config = <<>>
                       /\ calls = <<>>
                       /\ pc \in {"network", "config", "failed"}
                /\ \A n \in 1..3 :
                       (/\ k = CredentialOrder[n]
                        /\ NetworkAccepted
                        /\ pc # "config"
                        /\ \A j \in 1..(n - 1) : IsNonEmpty(CredentialOrder[j]))
                       => /\ pc = "failed"
                          /\ error = MissingVariable(k)
                /\ k = ADDRESS =>
                       \A i \in 1..Len(config) : config[i].address = None
                /\ k = IDEMPOTENCY_KEY =>
                       \A i \in 1..Len(config) : config[i].idempotency_key = None
                /\ k = TOKEN_URI =>
                       \A a \in TokenArguments : "token_uri" \notin DOMAIN a

\* C9 witness: CDP_API_KEY_ID exported as "" and given a value by the file,
\* and main failed with the error naming CDP_API_KEY_ID.
C9_Witness ==
    /\ CDP_API_KEY_ID \in DOMAIN environ0
    /\ environ0[CDP_API_KEY_ID] = <<>>
    /\ \E i \in 1..Len(FileLines) :
           /\ Defines(FileLines[i], CDP_API_KEY_ID)
           /\ PairValue(FileLines[i]) # <<>>
    /\ pc = "failed"
    /\ error = MissingVariable(CDP_API_KEY_ID)

\* C10: every Token Arguments mapping has "name" and "symbol"; each is the
\* default when its variable is unset and the variable's value, the empty
\* string included, when it is set; an empty NETWORK_ID is rejected.
C10_NameAndSymbolVerbatim ==
    /\ \A a \in TokenArguments :
           /\ "name" \in DOMAIN a
           /\ "symbol" \in DOMAIN a
           /\ a["name"] = IF IsSet(TOKEN_NAME)
                          THEN environ[TOKEN_NAME]
                          ELSE <<"M","a","b","d","y">>
           /\ a["symbol"] = IF IsSet(TOKEN_SYMBOL)
                            THEN environ[TOKEN_SYMBOL]
                            ELSE <<"M","A","B","D","Y">>
    /\ (pc \notin {"start", "network"} /\ IsSet(NETWORK_ID) /\ environ[NETWORK_ID] = <<>>)
           => pc = "failed" /\ error = NetworkError

\* C10 witness: create_token was called with the empty name of a TOKEN_NAME
\* set to the empty string.
C10_Witness ==
    /\ IsSet(TOKEN_NAME)
    /\ environ[TOKEN_NAME] = <<>>
    /\ \E i \in 1..Len(calls) :
           /\ calls[i].op = "create_token"
           /\ calls[i].input[2]["name"] = <<>>

====
